---- MODULE Spec2Model ----
(***************************************************************************)
(* The reconnecting WebSocket chat transport of the chatbot frontend       *)
(* (src/src/services/api.ts, class WebSocketChatService), together with    *)
(* the browser's WebSocket objects it creates and the timers it sets.      *)
(*                                                                         *)
(* connect() never closes the socket it replaces, and a socket that the    *)
(* transport no longer references still delivers its events to the         *)
(* handlers that connect() attached to it.  So `sock` holds every socket   *)
(* that can still deliver an event, and the one this.ws references.  A     *)
(* closed socket that this.ws does not reference can do nothing more: its  *)
(* slot is free again.                                                     *)
(***************************************************************************)
EXTENDS Integers, Sequences, FiniteSets, Bags, TLC

\* ---------------------------------------------------------------- bounds
\* Sockets that exist at the same time (connecting, open, closing, or closed
\* and still referenced by this.ws).
MaxLive == 2
\* Reconnect timers pending at the same time.
MaxTimers == 2
\* Frames written to sockets in one run.
MaxFrames == 1
\* Calls of message listeners in one run.
MaxInbound == 2
\* The maxAttempts a caller passes instead of the default.
ShortMaxAttempts == 2
\* The submits of the chat form that pass the guard of handleSubmit.
MaxSubmits == 1

\* ------------------------------------------------------ program constants
maxReconnectAttempts == 5
reconnectDelay == 1000

\* WebSocket close codes the handlers tell apart, and two they do not.
NormalClosure == 1000
PolicyViolation == 1008
\* Codes the browser reports that the handlers do not name: a connection that
\* failed or was lost, and an endpoint going away.
BrowserCodes == [abnormal |-> 1006, goingAway |-> 1001]
AbnormalClosure == BrowserCodes.abnormal
GoingAway == BrowserCodes.goingAway
CloseCodeSet == {NormalClosure, GoingAway, AbnormalClosure, PolicyViolation}

\* The defaults of pollFileStatus.
DefaultPollInterval == 2000
DefaultMaxAttempts == 30

NULL == "null"
\* this.ws = null
NoWs == 0
Sockets == 1..MaxLive
Handlers == {"h1", "h2"}
\* The listeners the effect of App registers with the transport.
AppListener == "app"

\* The texts a caller passes to sendMessage, as sequences of characters.
Texts ==
    { <<"h", "e", "l", "l", "o">>,
      <<"a", "\"", "\\">> }

VARIABLES
    token,              \* localStorage 'authToken': NULL or a token
    ws,                 \* this.ws: NULL or the socket the transport holds
    sock,               \* the sockets that exist: readyState, promise of connect(), closeCalled
    reconnectAttempts,  \* this.reconnectAttempts
    timers,             \* bag of the delays of the pending setTimeout callbacks
    connectionHandler,  \* this.connectionHandler: NULL or a listener
    reported,           \* what the connectivity listener was last told
    frames,             \* the frames written with ws.send, in order
    retriesFired,       \* history: reconnect timers fired since the last open
    ev,                 \* history: the step just taken
    messageHandler,     \* this.messageHandler: NULL or a listener
    delivered,          \* the calls of message listeners: listener and parsed data, in order
    reportedTo,         \* the connectivity listener that was last told
    onStatusUpdate,     \* pollFileStatus: the progress callback, or NULL
    maxAttempts,        \* pollFileStatus: the maxAttempts argument
    pollAttempts,       \* pollFileStatus: let attempts
    inflight,           \* pollFileStatus: a getFileStatus call is awaited
    pollTimers,         \* bag of the delays of the pending setTimeout(poll, ...)
    pollPromise,        \* the promise pollFileStatus returned: none, pending, resolved, rejected
    settled,            \* the calls of resolve and reject, in order
    updates,            \* the calls of onStatusUpdate, counted
    lastUpdate,         \* the status last passed to onStatusUpdate
    fetches,            \* the calls of getFileStatus, counted
    appIsConnected,     \* App: the state isConnected, the connectivity flag
    isLoading,          \* App: the state isLoading
    input,              \* App: the state input, the text of the textarea
    messages,           \* App: the roles of the state messages, in order
    effectActive,       \* App: the WebSocket effect ran and was not cleaned up
    multiple,           \* FileUpload: the prop multiple
    uploads,            \* FileUpload: the state uploads, the entries in order
    jobs,               \* FileUpload: where the async body of each file stands
    calls               \* FileUpload: the calls of onUploadComplete / onUploadError

\* The variables of the poller started by pollFileStatus.
pollerVars ==
    << onStatusUpdate, maxAttempts, pollAttempts, inflight, pollTimers,
       pollPromise, settled, updates, lastUpdate, fetches >>

\* The state of the App component (the Chat Session).
appVars == << appIsConnected, isLoading, input, messages, effectActive >>

\* The state of the FileUpload component.
uploadVars == << multiple, uploads, jobs, calls >>

\* The variables of the transport and of its environment.
transportVars ==
    << token, ws, sock, reconnectAttempts, timers, connectionHandler,
       reported, frames, retriesFired, messageHandler, delivered, reportedTo >>

vars ==
    << token, ws, sock, reconnectAttempts, timers, connectionHandler,
       reported, frames, retriesFired, ev, messageHandler, delivered,
       reportedTo, onStatusUpdate, maxAttempts, pollAttempts, inflight,
       pollTimers, pollPromise, settled, updates, lastUpdate, fetches,
       appIsConnected, isLoading, input, messages, effectActive,
       multiple, uploads, jobs, calls >>

\* ------------------------------------------------------------ pure helpers
RECURSIVE Pow2(_)
Pow2(n) == IF n = 0 THEN 1 ELSE 2 * Pow2(n - 1)

\* No status has been passed to onStatusUpdate.
NoStatus == [status |-> "", detail |-> ""]

NoSocket == [readyState |-> "NONE", promise |-> "none", closeCalled |-> FALSE]

\* The slots a new socket can take: the unused ones, and the one of a closed
\* socket that this.ws is about to stop referencing.
FreeSlots == {s \in Sockets : sock[s].readyState \in {"NONE", "CLOSED"}}
NewSocket == CHOOSE s \in FreeSlots : \A r \in FreeSlots : s <= r

\* The step just taken: the operation or event, the close code of a close
\* event, how the step left the promise of connect() or of sendMessage() (for
\* a registration the listener passed, for a frame what became of it), and
\* the text passed to sendMessage or carried by the frame.
Ev(op, code, res, arg) ==
    [op |-> op, code |-> code, res |-> res, arg |-> arg]

\* JSON.stringify of a string: the quote and the backslash are escaped.
JSONescapeChar(c) ==
    IF c = "\"" THEN <<"\\", "\"">>
    ELSE IF c = "\\" THEN <<"\\", "\\">>
    ELSE <<c>>

RECURSIVE JSONescape(_)
JSONescape(text) ==
    IF text = <<>> THEN <<>>
    ELSE JSONescapeChar(Head(text)) \o JSONescape(Tail(text))

\* JSON.stringify({ message }) of sendMessage.
JSONstringify(message) ==
    <<"{", "\"", "m", "e", "s", "s", "a", "g", "e", "\"", ":", "\"">>
        \o JSONescape(message) \o <<"\"", "}">>

\* The text of an object whose only member is "message", around the string.
FramePrefix == <<"{", "\"", "m", "e", "s", "s", "a", "g", "e", "\"", ":", "\"">>
FrameSuffix == <<"\"", "}">>

RECURSIVE JSONstringBody(_)
JSONstringBody(body) ==
    IF body = <<>> THEN TRUE
    ELSE IF Head(body) = "\"" THEN FALSE
    ELSE IF Head(body) = "\\"
         THEN /\ Len(body) >= 2
              /\ body[2] \in {"\"", "\\"}
              /\ JSONstringBody(SubSeq(body, 3, Len(body)))
    ELSE JSONstringBody(Tail(body))

RECURSIVE JSONunescape(_)
JSONunescape(body) ==
    IF body = <<>> THEN <<>>
    ELSE IF Head(body) = "\\"
         THEN <<body[2]>> \o JSONunescape(SubSeq(body, 3, Len(body)))
    ELSE <<Head(body)>> \o JSONunescape(Tail(body))

\* The texts that arrive in frames: a JSON string, a JSON object, the same
\* object cut short, and a bare word.
Payloads ==
    { <<"\"", "h", "\\", "\"", "i", "\"">>,
      <<"{", "\"", "m", "e", "s", "s", "a", "g", "e", "\"", ":", "\"", "o", "k", "\"", "}">>,
      <<"{", "\"", "m", "e", "s", "s", "a", "g", "e", "\"", ":", "\"", "o", "k">>,
      <<"o", "o", "p", "s">> }

\* JSON.parse on the texts above: a string literal gives the string, an object
\* with the member "message" gives the object, any other text throws.
JSONparse(text) ==
    IF /\ Len(text) >= 2
       /\ Head(text) = "\""
       /\ text[Len(text)] = "\""
       /\ JSONstringBody(SubSeq(text, 2, Len(text) - 1))
    THEN [ok |-> TRUE, type |-> "string",
          text |-> JSONunescape(SubSeq(text, 2, Len(text) - 1))]
    ELSE IF /\ Len(text) >= Len(FramePrefix) + Len(FrameSuffix)
            /\ SubSeq(text, 1, Len(FramePrefix)) = FramePrefix
            /\ SubSeq(text, Len(text) - Len(FrameSuffix) + 1, Len(text)) = FrameSuffix
            /\ JSONstringBody(SubSeq(text, Len(FramePrefix) + 1,
                                     Len(text) - Len(FrameSuffix)))
    THEN [ok |-> TRUE, type |-> "object",
          text |-> JSONunescape(SubSeq(text, Len(FramePrefix) + 1,
                                       Len(text) - Len(FrameSuffix)))]
    ELSE [ok |-> FALSE, type |-> "SyntaxError", text |-> <<>>]

\* Fault: a backoff that grows linearly instead of doubling.
DelayLinear(attempts) == reconnectDelay * (attempts + 1)

\* delay of scheduleReconnect
Delay(attempts) == reconnectDelay * Pow2(attempts)

\* Fault: the authentication-rejection code is not told apart.
ShouldReconnectOnPolicyViolation(code, attempts) ==
    /\ code # NormalClosure
    /\ attempts < maxReconnectAttempts

\* The conditions under which ws.onclose calls scheduleReconnect.
ShouldReconnect(code, attempts) ==
    /\ code # PolicyViolation
    /\ code # NormalClosure
    /\ attempts < maxReconnectAttempts

\* Fault: the retry is scheduled twice.
scheduleReconnectTwice(tm, attempts) ==
    tm (+) SetToBag({reconnectDelay * Pow2(attempts)})
       (+) SetToBag({reconnectDelay * Pow2(attempts)})

\* scheduleReconnect: one more pending timer, with the backoff delay.
scheduleReconnect(tm, attempts) == tm (+) SetToBag({Delay(attempts)})

\* this.connectionHandler?.(connected)
Notify(connected) ==
    IF connectionHandler = NULL THEN reported
    ELSE IF connected THEN "connected" ELSE "disconnected"

\* The listener that this.connectionHandler?.(...) calls.
NotifiedListener ==
    IF connectionHandler = NULL THEN reportedTo ELSE connectionHandler

\* Fault: the open handler leaves the attempt counter alone.
AttemptsOnOpenKept(attempts) == attempts

\* ws.onopen: this.reconnectAttempts = 0
AttemptsOnOpen(attempts) == 0

\* isConnected()
isConnected == ws # NoWs /\ sock[ws].readyState = "OPEN"

\* Fault: the guard checks the handle and not its readyState.
sendMessageRejectsNullOnly == ws = NoWs

\* The guard of sendMessage: !this.ws || this.ws.readyState !== WebSocket.OPEN
sendMessageRejects == ws = NoWs \/ sock[ws].readyState # "OPEN"

\* The connectivity listener of App: (connected) => setIsConnected(connected).
\* It runs when it is the listener the transport holds.
setIsConnected(connected) ==
    IF connectionHandler = AppListener THEN connected ELSE appIsConnected

\* A message of the chat: its role and its content.
Message(role, content) == [role |-> role, content |-> content]

Greeting == Message("assistant", <<"H", "e", "l", "l", "o">>)
Apology == Message("assistant", <<"I", " ", "a", "p", "o", "l", "o", "g", "i", "z", "e">>)

\* The message listener of App.  A frame whose sender is the user's e-mail is
\* an echo and adds nothing; no text of Payloads carries a sender, so each
\* parsed frame is appended as an assistant message with data.message, which
\* is undefined (here the empty text) when data is not an object.
appOnMessage(msgs, data) ==
    Append(msgs, Message("assistant",
                         IF data.type = "object" THEN data.text ELSE <<>>))

\* String.prototype.trim on texts whose only white space is the blank.
RECURSIVE trimStart(_)
trimStart(text) ==
    IF text # <<>> /\ Head(text) = " " THEN trimStart(Tail(text)) ELSE text

RECURSIVE trimEnd(_)
trimEnd(text) ==
    IF text # <<>> /\ text[Len(text)] = " "
    THEN trimEnd(SubSeq(text, 1, Len(text) - 1))
    ELSE text

trim(text) == trimEnd(trimStart(text))

\* The texts the user types into the textarea.
AppTexts == {<<>>, <<" ">>, <<" ", "h", "i">>}

\* The user messages of the chat, counted.
UserMessages == Cardinality({i \in 1..Len(messages) : messages[i].role = "user"})

\* The files the user selects or drops, each standing for its upload id too
\* (generateId is taken to return a fresh id per file): a.pdf, B.TXT, c.exe
\* and big.pdf of 11 MB; the others have 1 MB.
FileIds == {"a", "b", "c", "big"}
FileOrder == <<"a", "b", "c", "big">>

FileName(f) ==
    CASE f = "a" -> <<"a", ".", "p", "d", "f">>
      [] f = "b" -> <<"B", ".", "T", "X", "T">>
      [] f = "c" -> <<"c", ".", "e", "x", "e">>
      [] f = "big" -> <<"b", "i", "g", ".", "p", "d", "f">>

FileSize(f) == IF f = "big" THEN 11 * 1024 * 1024 ELSE 1024 * 1024

\* The defaults of the props acceptedTypes and maxFileSize (in MB).
acceptedTypes ==
    { <<".", "p", "d", "f">>, <<".", "d", "o", "c">>, <<".", "d", "o", "c", "x">>,
      <<".", "t", "x", "t">>, <<".", "m", "d">> }
maxFileSize == 10

\* name.split('.').pop(): the text after the last dot, the whole name when
\* it has no dot.
lastSegment(name) ==
    LET dots == {i \in 1..Len(name) : name[i] = "."}
    IN IF dots = {} THEN name
       ELSE SubSeq(name, (CHOOSE i \in dots : \A j \in dots : j <= i) + 1, Len(name))

\* toLowerCase on the letters of the file names above.
toLowerCase(text) ==
    [i \in 1..Len(text) |->
        CASE text[i] = "B" -> "b"
          [] text[i] = "T" -> "t"
          [] text[i] = "X" -> "x"
          [] OTHER -> text[i]]

fileExtension(name) == <<".">> \o toLowerCase(lastSegment(name))

\* Fault: the extension is not looked at.
validateFileSizeOnly(f) ==
    IF FileSize(f) > maxFileSize * 1024 * 1024
    THEN "File size must be less than 10MB"
    ELSE NULL

\* validateFile(file): the error text, or null for a file that is accepted.
validateFile(f) ==
    IF FileSize(f) > maxFileSize * 1024 * 1024
    THEN "File size must be less than 10MB"
    ELSE IF fileExtension(FileName(f)) \notin acceptedTypes
    THEN "File type not supported"
    ELSE NULL

\* Where the async body of handleFiles stands for a file: not passed (none),
\* turned away with its batch (refused) or by validateFile (invalid), awaiting
\* uploadFile (uploading), awaiting pollFileStatus with a fetch in flight
\* (polling) or a timer pending (waiting) or the promise settled (resolved,
\* rejected), and ended (done, failed).  attempts is the poller's counter,
\* kept while the poller reads it (0 once its promise settled), and outcome
\* the status the poller resolved with or the message of the error.
Job(pc, n, outcome) == [pc |-> pc, attempts |-> n, outcome |-> outcome]
NoJob == Job("none", 0, "")

\* An entry of the state uploads.
Upload(id, status, progress) == [id |-> id, status |-> status, progress |-> progress]

\* The calls of the props onUploadComplete and onUploadError, counted per file;
\* Batch counts the calls made for a whole batch.
Batch == "batch"
NoCalls == [complete |-> 0, error |-> 0]

\* prev.map(upload => upload.id === uploadId ? { ...upload, status } : upload)
setStatus(ups, id, status) ==
    [i \in 1..Len(ups) |->
        IF ups[i].id = id THEN [ups[i] EXCEPT !.status = status] ELSE ups[i]]

\* prev.map(upload => upload.id === uploadId ? { ...upload, progress } : upload)
setProgress(ups, id, progress) ==
    [i \in 1..Len(ups) |->
        IF ups[i].id = id THEN [ups[i] EXCEPT !.progress = progress] ELSE ups[i]]

\* Fault: removeUpload marks the entry and keeps it in the list.
removeUploadMarks(ups, id) == setStatus(ups, id, "removed")

\* removeUpload: prev.filter(upload => upload.id !== uploadId)
removeUpload(ups, id) ==
    LET Keep(upload) == upload.id # id
    IN SelectSeq(ups, Keep)

\* The ids of the entries of the list.
UploadIds == {uploads[i].id : i \in 1..Len(uploads)}

\* ------------------------------------------------------------------- Init
Init ==
    /\ token \in {NULL, "jwt"}
    /\ ws = NoWs
    /\ sock = [s \in Sockets |-> NoSocket]
    /\ reconnectAttempts = 0
    /\ timers = EmptyBag
    /\ connectionHandler = NULL
    /\ reported = "none"
    /\ frames = <<>>
    /\ retriesFired = 0
    /\ ev = Ev("init", 0, "", <<>>)
    /\ messageHandler = NULL
    /\ delivered = <<>>
    /\ reportedTo = NULL
    /\ onStatusUpdate = NULL
    /\ maxAttempts = 0
    /\ pollAttempts = 0
    /\ inflight = FALSE
    /\ pollTimers = EmptyBag
    /\ pollPromise = "none"
    /\ settled = <<>>
    /\ updates = 0
    /\ lastUpdate = NoStatus
    /\ fetches = 0
    /\ appIsConnected = FALSE
    /\ isLoading = FALSE
    /\ input = <<>>
    /\ messages = << Greeting >>
    /\ effectActive = FALSE
    /\ multiple = TRUE
    /\ uploads = <<>>
    /\ jobs = [f \in FileIds |-> NoJob]
    /\ calls = [c \in FileIds \cup {Batch} |-> NoCalls]

\* ---------------------------------------------------------------- actions
\* authService.login / register store the token; logout removes it.
Login ==
    /\ token = NULL
    /\ token' = "jwt"
    /\ ev' = Ev("login", 0, "", <<>>)
    /\ UNCHANGED << ws, sock, reconnectAttempts, timers, connectionHandler,
                    reported, frames, retriesFired,
                    messageHandler, delivered, reportedTo >>
    /\ UNCHANGED pollerVars
    /\ UNCHANGED appVars
    /\ UNCHANGED uploadVars

Logout ==
    /\ token # NULL
    /\ token' = NULL
    /\ ev' = Ev("logout", 0, "", <<>>)
    /\ UNCHANGED << ws, sock, reconnectAttempts, timers, connectionHandler,
                    reported, frames, retriesFired,
                    messageHandler, delivered, reportedTo >>
    /\ UNCHANGED pollerVars
    /\ UNCHANGED appVars
    /\ UNCHANGED uploadVars

\* The body of connect(): without a token it throws (the promise rejects) and
\* creates nothing; with one it creates a socket, stores it in this.ws and
\* attaches the four handlers.  The previous socket is not closed.
CanConnect == token = NULL \/ FreeSlots # {}

\* Fault: the token is not required.
connectAnonymous ==
    /\ ws' = NewSocket
    /\ sock' = [s \in Sockets |->
                   IF s = NewSocket
                   THEN [readyState |-> "CONNECTING", promise |-> "pending",
                         closeCalled |-> FALSE]
                   ELSE IF sock[s].readyState = "CLOSED" THEN NoSocket
                   ELSE sock[s]]

connect ==
    IF token = NULL
    THEN UNCHANGED << ws, sock >>
    ELSE /\ ws' = NewSocket
         /\ sock' = [s \in Sockets |->
                        IF s = NewSocket
                        THEN [readyState |-> "CONNECTING", promise |-> "pending",
                              closeCalled |-> FALSE]
                        ELSE IF sock[s].readyState = "CLOSED" THEN NoSocket
                        ELSE sock[s]]

connectResult == IF token = NULL THEN "NoToken" ELSE "pending"

\* A caller calls connect().
Connect ==
    /\ CanConnect
    /\ connect
    /\ ev' = Ev("connect", 0, connectResult, <<>>)
    /\ UNCHANGED << token, reconnectAttempts, timers, connectionHandler,
                    reported, frames, retriesFired,
                    messageHandler, delivered, reportedTo >>
    /\ UNCHANGED pollerVars
    /\ UNCHANGED appVars
    /\ UNCHANGED uploadVars

\* ws.onopen of socket s: the handshake completed.
SocketOpen(s) ==
    /\ sock[s].readyState = "CONNECTING"
    /\ sock' = [sock EXCEPT ![s].readyState = "OPEN", ![s].promise = "resolved"]
    /\ reconnectAttempts' = AttemptsOnOpen(reconnectAttempts)
    /\ reported' = Notify(TRUE)
    /\ retriesFired' = 0
    /\ ev' = Ev("open", 0, "resolved", <<>>)
    /\ reportedTo' = NotifiedListener
    /\ appIsConnected' = setIsConnected(TRUE)
    /\ UNCHANGED << token, ws, timers, connectionHandler, frames,
                    messageHandler, delivered >>
    /\ UNCHANGED pollerVars
    /\ UNCHANGED << isLoading, input, messages, effectActive >>
    /\ UNCHANGED uploadVars

\* The remote end starts the closing handshake of an open socket: the
\* browser sets readyState to CLOSING; no handler of the transport runs.
SocketClosing(s) ==
    /\ sock[s].readyState = "OPEN"
    /\ sock' = [sock EXCEPT ![s].readyState = "CLOSING"]
    /\ ev' = Ev("closing", 0, "", <<>>)
    /\ UNCHANGED << token, ws, reconnectAttempts, timers, connectionHandler,
                    reported, frames, retriesFired,
                    messageHandler, delivered, reportedTo >>
    /\ UNCHANGED pollerVars
    /\ UNCHANGED appVars
    /\ UNCHANGED uploadVars

\* The close codes the browser can report for socket s.  A connection that
\* never opened fails with 1006; one closed by close(1000) ends with 1000, or
\* with 1006 when the closing handshake does not complete; one closed by the
\* remote end carries the remote end's code.
CloseCodes(s) ==
    IF sock[s].promise = "pending" THEN {AbnormalClosure}
    ELSE IF sock[s].closeCalled THEN {NormalClosure, AbnormalClosure}
    ELSE {NormalClosure, GoingAway, AbnormalClosure, PolicyViolation}

\* Fault: the error handler does not reject.
onerrorIgnored(p) == p

\* ws.onerror: reject(error); it settles the promise only when still pending.
onerror(p) == IF p = "pending" THEN "rejected" ELSE p

\* The connection of socket s ends.  A failed connection (1006) fires the
\* error event and then the close event in one task; ws.onclose reports
\* false and decides whether to schedule a reconnect.
SocketClose(s, code) ==
    /\ sock[s].readyState \in {"CONNECTING", "OPEN", "CLOSING"}
    /\ code \in CloseCodes(s)
    /\ ShouldReconnect(code, reconnectAttempts) => BagCardinality(timers) < MaxTimers
    /\ LET p == IF code = AbnormalClosure THEN onerror(sock[s].promise)
                ELSE sock[s].promise
       IN /\ sock' = [sock EXCEPT ![s] =
                         IF s = ws
                         THEN [readyState |-> "CLOSED", promise |-> p,
                               closeCalled |-> FALSE]
                         ELSE NoSocket]
          /\ ev' = Ev("close", code, p, <<>>)
    /\ reported' = Notify(FALSE)
    /\ timers' = IF ShouldReconnect(code, reconnectAttempts)
                 THEN scheduleReconnect(timers, reconnectAttempts)
                 ELSE timers
    /\ reportedTo' = NotifiedListener
    /\ appIsConnected' = setIsConnected(FALSE)
    /\ UNCHANGED << token, ws, reconnectAttempts, connectionHandler, frames,
                    retriesFired, messageHandler, delivered >>
    /\ UNCHANGED pollerVars
    /\ UNCHANGED << isLoading, input, messages, effectActive >>
    /\ UNCHANGED uploadVars

\* A reconnect timer with delay d fires: reconnectAttempts++ and connect(),
\* whose rejection is caught and logged.
TimerFire(d) ==
    /\ BagIn(d, timers)
    /\ CanConnect
    /\ timers' = timers (-) SetToBag({d})
    /\ reconnectAttempts' = reconnectAttempts + 1
    /\ retriesFired' = retriesFired + 1
    /\ connect
    /\ ev' = Ev("timer", 0, connectResult, <<>>)
    /\ UNCHANGED << token, connectionHandler, reported, frames,
                    messageHandler, delivered, reportedTo >>
    /\ UNCHANGED pollerVars
    /\ UNCHANGED appVars
    /\ UNCHANGED uploadVars

\* Fault: close() has no effect.
closeIgnored(r) == r

\* ws.close(1000, ...) of the browser: a no-op on a closing or closed socket;
\* otherwise the socket is CLOSING until its close event.
close(r) ==
    IF r.readyState \in {"CONNECTING", "OPEN"}
    THEN [r EXCEPT !.readyState = "CLOSING", !.closeCalled = TRUE]
    ELSE IF r.readyState = "CLOSED" THEN NoSocket
    ELSE r

\* The body of disconnect(): if (this.ws) { this.ws.close(1000, ...); this.ws = null }
disconnect ==
    IF ws # NoWs
    THEN /\ sock' = [sock EXCEPT ![ws] = close(sock[ws])]
         /\ ws' = NoWs
    ELSE UNCHANGED << ws, sock >>

\* disconnect()
Disconnect ==
    /\ disconnect
    /\ ev' = Ev("disconnect", 0, "", <<>>)
    /\ UNCHANGED << token, reconnectAttempts, timers, connectionHandler,
                    reported, frames, retriesFired,
                    messageHandler, delivered, reportedTo >>
    /\ UNCHANGED pollerVars
    /\ UNCHANGED appVars
    /\ UNCHANGED uploadVars

\* sendMessage(message)
SendMessage(message) ==
    /\ ~sendMessageRejects => Len(frames) < MaxFrames
    /\ IF sendMessageRejects
       THEN /\ frames' = frames
            /\ ev' = Ev("send", 0, "NotConnected", message)
       ELSE /\ frames' = Append(frames, JSONstringify(message))
            /\ ev' = Ev("send", 0, "sent", message)
    /\ UNCHANGED << token, ws, sock, reconnectAttempts, timers,
                    connectionHandler, reported, retriesFired,
                    messageHandler, delivered, reportedTo >>
    /\ UNCHANGED pollerVars
    /\ UNCHANGED appVars
    /\ UNCHANGED uploadVars

\* onConnectionChange(handler)
OnConnectionChange(h) ==
    /\ connectionHandler # h
    /\ connectionHandler' = h
    /\ ev' = Ev("onConnectionChange", 0, h, <<>>)
    /\ UNCHANGED << token, ws, sock, reconnectAttempts, timers, reported,
                    frames, retriesFired,
                    messageHandler, delivered, reportedTo >>
    /\ UNCHANGED pollerVars
    /\ UNCHANGED appVars
    /\ UNCHANGED uploadVars

\* Fault: a listener, once registered, is kept.
onMessageKeepsFirst(h) == IF messageHandler = NULL THEN h ELSE messageHandler

\* onMessage(handler): this.messageHandler = handler
onMessage(h) == h

OnMessage(h) ==
    /\ messageHandler # h
    /\ messageHandler' = onMessage(h)
    /\ ev' = Ev("onMessage", 0, h, <<>>)
    /\ UNCHANGED << token, ws, sock, reconnectAttempts, timers,
                    connectionHandler, reported, frames, retriesFired,
                    delivered, reportedTo >>
    /\ UNCHANGED pollerVars
    /\ UNCHANGED appVars
    /\ UNCHANGED uploadVars

\* Fault: the newest frame is handed over ahead of the earlier ones.
onmessageNewestFirst(dl, payload) ==
    IF JSONparse(payload).ok /\ messageHandler # NULL
    THEN << [to |-> messageHandler, type |-> JSONparse(payload).type,
             text |-> JSONparse(payload).text] >> \o dl
    ELSE dl

\* Fault: a text that does not parse is handed to the listener as raw text.
onmessageRawFallback(dl, payload) ==
    IF messageHandler = NULL THEN dl
    ELSE IF JSONparse(payload).ok
    THEN Append(dl, [to |-> messageHandler, type |-> JSONparse(payload).type,
                     text |-> JSONparse(payload).text])
    ELSE Append(dl, [to |-> messageHandler, type |-> "raw", text |-> payload])

\* The body of ws.onmessage: JSON.parse(event.data), then
\* this.messageHandler?.(data); a text that does not parse is logged.
onmessage(dl, payload) ==
    LET data == JSONparse(payload)
    IN IF data.ok /\ messageHandler # NULL
       THEN Append(dl, [to |-> messageHandler, type |-> data.type,
                        text |-> data.text])
       ELSE dl

\* A frame with the text payload arrives on socket s.  The browser fires the
\* message event only while the socket is OPEN.
SocketMessage(s, payload) ==
    /\ sock[s].readyState = "OPEN"
    /\ LET dl == onmessage(delivered, payload)
       IN /\ dl # delivered => Len(delivered) < MaxInbound
          /\ delivered' = dl
          /\ ev' = Ev("message", 0,
                      IF dl # delivered THEN "delivered"
                      ELSE IF messageHandler = NULL THEN "nolistener"
                      ELSE "SyntaxError",
                      payload)
          /\ IF dl # delivered /\ messageHandler = AppListener
             THEN /\ messages' = appOnMessage(messages, JSONparse(payload))
                  /\ isLoading' = FALSE
             ELSE UNCHANGED << messages, isLoading >>
    /\ UNCHANGED << token, ws, sock, reconnectAttempts, timers,
                    connectionHandler, reported, frames, retriesFired,
                    messageHandler, reportedTo >>
    /\ UNCHANGED pollerVars
    /\ UNCHANGED << appIsConnected, input, effectActive >>
    /\ UNCHANGED uploadVars

\* ------------------------------------------------------- the Chat Session
\* The WebSocket effect of App runs: it registers the two listeners and calls
\* initializeWebSocket, whose catch sets the flag to false when connect()
\* throws for lack of a token.  When the promise of connect() settles later,
\* the continuation sets the flag to the value the connectivity listener is
\* given in the same task by ws.onopen or ws.onclose.
EffectRun ==
    /\ ~effectActive
    /\ CanConnect
    /\ effectActive' = TRUE
    /\ messageHandler' = onMessage(AppListener)
    /\ connectionHandler' = AppListener
    /\ connect
    /\ appIsConnected' = IF token = NULL THEN FALSE ELSE appIsConnected
    /\ ev' = Ev("effect", 0, connectResult, <<>>)
    /\ UNCHANGED << token, reconnectAttempts, timers, reported, frames,
                    retriesFired, delivered, reportedTo >>
    /\ UNCHANGED << isLoading, input, messages >>
    /\ UNCHANGED pollerVars
    /\ UNCHANGED uploadVars

\* The cleanup of the effect (the user changed, or App unmounts): disconnect().
EffectCleanup ==
    /\ effectActive
    /\ effectActive' = FALSE
    /\ disconnect
    /\ ev' = Ev("cleanup", 0, "", <<>>)
    /\ UNCHANGED << token, reconnectAttempts, timers, connectionHandler,
                    reported, frames, retriesFired,
                    messageHandler, delivered, reportedTo >>
    /\ UNCHANGED << appIsConnected, isLoading, input, messages >>
    /\ UNCHANGED pollerVars
    /\ UNCHANGED uploadVars

\* Fault: handleLogout drops the socket and keeps the stored token.
HandleLogoutKeepsToken ==
    /\ token # NULL
    /\ disconnect
    /\ ev' = Ev("handleLogout", 0, "", <<>>)
    /\ UNCHANGED << token, reconnectAttempts, timers, connectionHandler,
                    reported, frames, retriesFired,
                    messageHandler, delivered, reportedTo >>
    /\ UNCHANGED appVars
    /\ UNCHANGED pollerVars
    /\ UNCHANGED uploadVars

\* handleLogout: websocketChatService.disconnect(); logout()
HandleLogout ==
    /\ token # NULL
    /\ disconnect
    /\ token' = NULL
    /\ ev' = Ev("handleLogout", 0, "", <<>>)
    /\ UNCHANGED << reconnectAttempts, timers, connectionHandler,
                    reported, frames, retriesFired,
                    messageHandler, delivered, reportedTo >>
    /\ UNCHANGED appVars
    /\ UNCHANGED pollerVars
    /\ UNCHANGED uploadVars

\* The user edits the textarea, which is disabled while isLoading or while
\* the flag is false: onChange sets input.
SetInput(text) ==
    /\ ~isLoading
    /\ appIsConnected
    /\ text # input
    /\ input' = text
    /\ ev' = Ev("setInput", 0, "", text)
    /\ UNCHANGED << appIsConnected, isLoading, messages, effectActive >>
    /\ UNCHANGED transportVars
    /\ UNCHANGED pollerVars
    /\ UNCHANGED uploadVars

\* Fault: the guard of handleSubmit does not look at the connectivity flag.
handleSubmitReturnsWhenBusy == trim(input) = <<>> \/ isLoading

\* The guard of handleSubmit: !input.trim() || isLoading || !isConnected
handleSubmitReturns == trim(input) = <<>> \/ isLoading \/ ~appIsConnected

\* handleSubmit, up to the end of its catch: a rejected sendMessage appends
\* the apology and clears isLoading.
HandleSubmit ==
    /\ ~handleSubmitReturns => UserMessages < MaxSubmits
    /\ ~handleSubmitReturns /\ ~sendMessageRejects => Len(frames) < MaxFrames
    /\ IF handleSubmitReturns
       THEN /\ ev' = Ev("submit", 0, "returned", input)
            /\ UNCHANGED << frames, input, isLoading, messages >>
       ELSE /\ input' = <<>>
            /\ IF sendMessageRejects
               THEN /\ frames' = frames
                    /\ messages' = messages \o << Message("user", input), Apology >>
                    /\ isLoading' = FALSE
                    /\ ev' = Ev("submit", 0, "NotConnected", input)
               ELSE /\ frames' = Append(frames, JSONstringify(input))
                    /\ messages' = Append(messages, Message("user", input))
                    /\ isLoading' = TRUE
                    /\ ev' = Ev("submit", 0, "sent", input)
    /\ UNCHANGED << token, ws, sock, reconnectAttempts, timers,
                    connectionHandler, reported, retriesFired,
                    messageHandler, delivered, reportedTo >>
    /\ UNCHANGED << appIsConnected, effectActive >>
    /\ UNCHANGED pollerVars
    /\ UNCHANGED uploadVars

\* The frames of the chat server: the texts that parse to an object.
ChatPayloads == {payload \in Payloads : JSONparse(payload).type = "object"}

\* The chat form over a transport whose sockets end with 1000 or 1008.
NextChat ==
    \/ EffectRun
    \/ EffectCleanup
    \/ \E s \in Sockets : SocketOpen(s)
    \/ \E s \in Sockets : \E code \in {NormalClosure, PolicyViolation} :
           SocketClose(s, code)
    \/ \E text \in AppTexts : SetInput(text)
    \/ HandleSubmit
    \/ \E s \in Sockets : \E payload \in ChatPayloads : SocketMessage(s, payload)

SpecChat == Init /\ [][NextChat]_vars

\* The chat form while the effect stays in place, over sockets that end with
\* any code: the transport reconnects by its timers.
NextChatFair ==
    \/ EffectRun
    \/ \E s \in Sockets : SocketOpen(s)
    \/ \E s \in Sockets : \E code \in CloseCodeSet :
           SocketClose(s, code) /\ BagCardinality(timers') < MaxTimers
    \/ \E d \in BagToSet(timers) : TimerFire(d)
    \/ \E text \in AppTexts : SetInput(text)
    \/ HandleSubmit
    \/ \E s \in Sockets : \E payload \in ChatPayloads : SocketMessage(s, payload)

\* A reconnect timer that is pending fires and a handshake that is pending
\* completes; the server owes no frame.
SpecChatFair ==
    /\ Init
    /\ [][NextChatFair]_vars
    /\ WF_vars(\E d \in BagToSet(timers) : TimerFire(d))
    /\ WF_vars(\E s \in Sockets : SocketOpen(s))

\* Login and logout of the user of App over the whole life of the sockets.
NextLogout ==
    \/ Login
    \/ HandleLogout
    \/ EffectRun
    \/ EffectCleanup
    \/ \E s \in Sockets : SocketOpen(s)
    \/ \E s \in Sockets : \E code \in CloseCodeSet :
           SocketClose(s, code) /\ BagCardinality(timers') < MaxTimers
    \/ \E d \in BagToSet(timers) : TimerFire(d)

SpecLogout == Init /\ [][NextLogout]_vars

\* ------------------------------------------------------------- the poller
\* What getFileStatus returns: the status the server reports, with a detail.
FileStatuses == {"processing", "processed", "unknown", "error"}
Details == {"", "corrupt"}
StatusResponses == [status : FileStatuses, detail : Details]

\* What getFileStatus throws: the server's detail, or its own message.
FetchErrors == {"not found", "Failed to get file status"}

\* The maxAttempts arguments: the default and a shorter one.
MaxAttemptsArgs == {ShortMaxAttempts, DefaultMaxAttempts}

\* A call of resolve or reject, with what it passes: the status response, or
\* the kind of error with its message and the status the message quotes.
Resolved(status) ==
    [how |-> "resolve", error |-> "", message |-> status.detail,
     status |-> status.status]
Rejected(error, message, status) ==
    [how |-> "reject", error |-> error, message |-> message, status |-> status]

\* status.detail || 'File processing failed with unknown status'
UnknownMessage(detail) ==
    IF detail # "" THEN detail ELSE "File processing failed with unknown status"

\* Fault: the limit is passed only by the attempt after maxAttempts.
pollDecisionLimitExceeded(status, n, max) ==
    IF status.status = "processed" THEN Resolved(status)
    ELSE IF status.status = "unknown"
    THEN Rejected("ProcessingFailed", UnknownMessage(status.detail), status.status)
    ELSE IF n > max
    THEN Rejected("Timeout", "File processing timeout - file is still processing",
                  status.status)
    ELSE IF status.status = "processing"
    THEN [how |-> "continue", error |-> "", message |-> "", status |-> status.status]
    ELSE Rejected("UnexpectedStatus", "Unexpected file status", status.status)

\* Fault: the limit is tested before the status.
pollDecisionLimitFirst(status, n, max) ==
    IF n >= max
    THEN Rejected("Timeout", "File processing timeout - file is still processing",
                  status.status)
    ELSE IF status.status = "processed" THEN Resolved(status)
    ELSE IF status.status = "unknown"
    THEN Rejected("ProcessingFailed", UnknownMessage(status.detail), status.status)
    ELSE IF status.status = "processing"
    THEN [how |-> "continue", error |-> "", message |-> "", status |-> status.status]
    ELSE Rejected("UnexpectedStatus", "Unexpected file status", status.status)

\* Fault: an unknown status is polled again.
pollDecisionUnknownRetried(status, n, max) ==
    IF status.status = "processed" THEN Resolved(status)
    ELSE IF n >= max
    THEN Rejected("Timeout", "File processing timeout - file is still processing",
                  status.status)
    ELSE IF status.status \in {"processing", "unknown"}
    THEN [how |-> "continue", error |-> "", message |-> "", status |-> status.status]
    ELSE Rejected("UnexpectedStatus", "Unexpected file status", status.status)

\* Fault: a status that is not expected keeps the poller going.
pollDecisionUnexpectedRetried(status, n, max) ==
    IF status.status = "processed" THEN Resolved(status)
    ELSE IF status.status = "unknown"
    THEN Rejected("ProcessingFailed", UnknownMessage(status.detail), status.status)
    ELSE IF n >= max
    THEN Rejected("Timeout", "File processing timeout - file is still processing",
                  status.status)
    ELSE [how |-> "continue", error |-> "", message |-> "", status |-> status.status]

\* What poll does with the status of attempt n, in the order of its tests:
\* processed, unknown, the attempt limit, processing, anything else.
pollDecision(status, n, max) ==
    IF status.status = "processed" THEN Resolved(status)
    ELSE IF status.status = "unknown"
    THEN Rejected("ProcessingFailed", UnknownMessage(status.detail), status.status)
    ELSE IF n >= max
    THEN Rejected("Timeout", "File processing timeout - file is still processing",
                  status.status)
    ELSE IF status.status = "processing"
    THEN [how |-> "continue", error |-> "", message |-> "", status |-> status.status]
    ELSE Rejected("UnexpectedStatus", "Unexpected file status", status.status)

\* resolve or reject settles the promise once; a later call has no effect.
Settle(how) ==
    IF pollPromise # "pending" THEN pollPromise
    ELSE IF how = "resolve" THEN "resolved" ELSE "rejected"

\* poll() up to its await: attempts++ and the call of getFileStatus.
poll ==
    /\ pollAttempts' = pollAttempts + 1
    /\ fetches' = fetches + 1
    /\ inflight' = TRUE

\* pollFileStatus(fileId, cb, pollInterval, max): the promise is created and
\* poll() runs up to its await.
PollFileStatus(cb, max) ==
    /\ pollPromise = "none"
    /\ onStatusUpdate' = cb
    /\ maxAttempts' = max
    /\ pollPromise' = "pending"
    /\ poll
    /\ ev' = Ev("pollFileStatus", 0, "pending", <<>>)
    /\ UNCHANGED << pollTimers, settled, updates, lastUpdate >>
    /\ UNCHANGED transportVars
    /\ UNCHANGED appVars
    /\ UNCHANGED uploadVars

\* Fault: the callback is told only of the statuses that keep the poller going.
reportStatusWhileProcessing(n, status) ==
    IF onStatusUpdate # NULL /\ status.status = "processing"
    THEN [calls |-> n + 1, last |-> status]
    ELSE [calls |-> n, last |-> lastUpdate]

\* if (onStatusUpdate) { onStatusUpdate(status) }, after n calls.
reportStatus(n, status) ==
    IF onStatusUpdate # NULL
    THEN [calls |-> n + 1, last |-> status]
    ELSE [calls |-> n, last |-> lastUpdate]

\* getFileStatus returns status: onStatusUpdate is called when given, then
\* poll resolves, rejects or sets the timer of the next poll.
FetchReturns(status) ==
    /\ inflight
    /\ inflight' = FALSE
    /\ updates' = reportStatus(updates, status).calls
    /\ lastUpdate' = reportStatus(updates, status).last
    /\ LET decision == pollDecision(status, pollAttempts, maxAttempts)
       IN IF decision.how = "continue"
          THEN /\ pollTimers' = pollTimers (+) SetToBag({DefaultPollInterval})
               /\ UNCHANGED << settled, pollPromise >>
          ELSE /\ settled' = Append(settled, decision)
               /\ pollPromise' = Settle(decision.how)
               /\ UNCHANGED pollTimers
    /\ ev' = Ev("status", 0, status.status, <<status.detail>>)
    /\ UNCHANGED << onStatusUpdate, maxAttempts, pollAttempts, fetches >>
    /\ UNCHANGED transportVars
    /\ UNCHANGED appVars
    /\ UNCHANGED uploadVars

\* Fault: a failed fetch is tried again after the poll interval.
FetchFailsRetried(message) ==
    /\ inflight
    /\ inflight' = FALSE
    /\ pollTimers' = pollTimers (+) SetToBag({DefaultPollInterval})
    /\ ev' = Ev("fetchFailed", 0, message, <<>>)
    /\ UNCHANGED << onStatusUpdate, maxAttempts, pollAttempts, settled,
                    pollPromise, updates, lastUpdate, fetches >>
    /\ UNCHANGED transportVars
    /\ UNCHANGED appVars
    /\ UNCHANGED uploadVars

\* getFileStatus throws: the catch of poll rejects with the error.
FetchFails(message) ==
    /\ inflight
    /\ inflight' = FALSE
    /\ settled' = Append(settled, Rejected("FetchFailed", message, ""))
    /\ pollPromise' = Settle("reject")
    /\ ev' = Ev("fetchFailed", 0, message, <<>>)
    /\ UNCHANGED << onStatusUpdate, maxAttempts, pollAttempts, pollTimers,
                    updates, lastUpdate, fetches >>
    /\ UNCHANGED transportVars
    /\ UNCHANGED appVars
    /\ UNCHANGED uploadVars

\* The timer set by setTimeout(poll, pollInterval) fires: poll() runs again.
PollTimerFire(d) ==
    /\ BagIn(d, pollTimers)
    /\ pollTimers' = pollTimers (-) SetToBag({d})
    /\ poll
    /\ ev' = Ev("pollTimer", 0, "", <<>>)
    /\ UNCHANGED << onStatusUpdate, maxAttempts, pollPromise, settled,
                    updates, lastUpdate >>
    /\ UNCHANGED transportVars
    /\ UNCHANGED appVars
    /\ UNCHANGED uploadVars

\* One call of pollFileStatus, with the server answering each status fetch
\* with any status or failing it.
NextPoll ==
    \/ \E cb \in {NULL, "cb"} : \E max \in MaxAttemptsArgs : PollFileStatus(cb, max)
    \/ \E status \in StatusResponses : FetchReturns(status)
    \/ \E message \in FetchErrors : FetchFails(message)
    \/ \E d \in BagToSet(pollTimers) : PollTimerFire(d)

SpecPoll == Init /\ [][NextPoll]_vars

\* The same, with every status fetch answered or failed in the end and every
\* timer firing in the end.
SpecPollFair ==
    /\ Init
    /\ [][NextPoll]_vars
    /\ WF_vars(\E status \in StatusResponses : FetchReturns(status))
    /\ WF_vars(\E message \in FetchErrors : FetchFails(message))
    /\ WF_vars(\E d \in BagToSet(pollTimers) : PollTimerFire(d))

\* ------------------------------------------------------- the uploads list
\* What uploadFile throws: the detail of the server's answer or the default.
UploadErrors == {"quota exceeded", "File upload failed"}

\* The percentages axios reports while the request body is sent.
Progresses == {50}

\* What the server answers to a status fetch for file f: a.pdf takes any
\* number of polls, the other files are dealt with by the time of their
\* first poll.
FileAnswers(f) ==
    IF f = "a" THEN StatusResponses
    ELSE {status \in StatusResponses : status.status # "processing"}

\* The files of a batch in the order of the FileList.
BatchSeq(batch) ==
    LET In(f) == f \in batch
    IN SelectSeq(FileOrder, In)

\* handleFiles(files), up to the first await of each file's body.  A batch of
\* several files is turned away as a whole when multiple is false.  Otherwise
\* a file that validateFile rejects is reported to onUploadError, and each
\* other file gets an entry (pending, then uploading) and its upload starts.
HandleFiles(batch) ==
    /\ batch # {}
    /\ \A f \in batch : jobs[f].pc = "none"
    /\ IF ~multiple /\ Cardinality(batch) > 1
       THEN /\ calls' = [calls EXCEPT ![Batch].error = @ + 1]
            /\ jobs' = [f \in FileIds |->
                           IF f \in batch THEN Job("refused", 0, "") ELSE jobs[f]]
            /\ uploads' = uploads
            /\ ev' = Ev("handleFiles", 0, "refused", BatchSeq(batch))
       ELSE LET Accepted(f) == f \in batch /\ validateFile(f) = NULL
                accepted == SelectSeq(FileOrder, Accepted)
            IN /\ calls' = [c \in DOMAIN calls |->
                               IF c \in batch /\ ~Accepted(c)
                               THEN [calls[c] EXCEPT !.error = @ + 1]
                               ELSE calls[c]]
               /\ jobs' = [f \in FileIds |->
                              IF f \notin batch THEN jobs[f]
                              ELSE IF Accepted(f) THEN Job("uploading", 0, "")
                              ELSE Job("invalid", 0, validateFile(f))]
               /\ uploads' = uploads \o
                     [i \in 1..Len(accepted) |-> Upload(accepted[i], "uploading", 0)]
               /\ ev' = Ev("handleFiles", 0, "started", BatchSeq(batch))
    /\ UNCHANGED multiple
    /\ UNCHANGED transportVars
    /\ UNCHANGED pollerVars
    /\ UNCHANGED appVars

\* The parent renders the component with the prop multiple set to m, before
\* the first files are handed over.
Render(m) ==
    /\ multiple # m
    /\ \A f \in FileIds : jobs[f].pc = "none"
    /\ multiple' = m
    /\ ev' = Ev("render", 0, "", <<>>)
    /\ UNCHANGED << uploads, jobs, calls >>
    /\ UNCHANGED transportVars
    /\ UNCHANGED pollerVars
    /\ UNCHANGED appVars

\* The progress callback of uploadFile runs for file f.
UploadProgress(f, progress) ==
    /\ jobs[f].pc = "uploading"
    /\ uploads' = setProgress(uploads, f, progress)
    /\ ev' = Ev("progress", 0, "", <<f>>)
    /\ UNCHANGED << multiple, jobs, calls >>
    /\ UNCHANGED transportVars
    /\ UNCHANGED pollerVars
    /\ UNCHANGED appVars

\* uploadFile returns for file f: the entry is processing at 100 and
\* pollFileStatus starts its first status fetch.
UploadReturns(f) ==
    /\ jobs[f].pc = "uploading"
    /\ uploads' = setProgress(setStatus(uploads, f, "processing"), f, 100)
    /\ jobs' = [jobs EXCEPT ![f] = Job("polling", 1, "")]
    /\ ev' = Ev("uploaded", 0, "", <<f>>)
    /\ UNCHANGED << multiple, calls >>
    /\ UNCHANGED transportVars
    /\ UNCHANGED pollerVars
    /\ UNCHANGED appVars

\* The catch of the body of file f: the entry is set to error and
\* onUploadError is called with the message.
catch(f, message) ==
    /\ uploads' = setStatus(uploads, f, "error")
    /\ calls' = [calls EXCEPT ![f].error = @ + 1]
    /\ jobs' = [jobs EXCEPT ![f] = Job("failed", 0, message)]

\* uploadFile throws for file f.
UploadFails(f, message) ==
    /\ jobs[f].pc = "uploading"
    /\ catch(f, message)
    /\ ev' = Ev("uploadFailed", 0, message, <<f>>)
    /\ UNCHANGED multiple
    /\ UNCHANGED transportVars
    /\ UNCHANGED pollerVars
    /\ UNCHANGED appVars

\* A status fetch of the poller of file f returns: the callback handleFiles
\* passed sets the entry's status to the status fetched, then the poller
\* resolves, rejects or sets its timer.
FileStatusReturns(f, status) ==
    /\ jobs[f].pc = "polling"
    /\ uploads' = setStatus(uploads, f, status.status)
    /\ LET d == pollDecision(status, jobs[f].attempts, DefaultMaxAttempts)
       IN jobs' = [jobs EXCEPT ![f] =
                     IF d.how = "resolve"
                     THEN Job("resolved", 0, status.status)
                     ELSE IF d.how = "reject"
                     THEN Job("rejected", 0, d.message)
                     ELSE Job("waiting", jobs[f].attempts, "")]
    /\ ev' = Ev("fileStatus", 0, status.status, <<f>>)
    /\ UNCHANGED << multiple, calls >>
    /\ UNCHANGED transportVars
    /\ UNCHANGED pollerVars
    /\ UNCHANGED appVars

\* A status fetch of the poller of file f throws: the poller rejects.
FileStatusFails(f, message) ==
    /\ jobs[f].pc = "polling"
    /\ jobs' = [jobs EXCEPT ![f] = Job("rejected", 0, message)]
    /\ ev' = Ev("fileStatusFailed", 0, message, <<f>>)
    /\ UNCHANGED << multiple, uploads, calls >>
    /\ UNCHANGED transportVars
    /\ UNCHANGED pollerVars
    /\ UNCHANGED appVars

\* The timer of the poller of file f fires: attempts++ and the next fetch.
FilePollTimerFire(f) ==
    /\ jobs[f].pc = "waiting"
    /\ jobs' = [jobs EXCEPT ![f] = Job("polling", jobs[f].attempts + 1, "")]
    /\ ev' = Ev("filePollTimer", 0, "", <<f>>)
    /\ UNCHANGED << multiple, uploads, calls >>
    /\ UNCHANGED transportVars
    /\ UNCHANGED pollerVars
    /\ UNCHANGED appVars

\* The body of file f goes on after await pollFileStatus: a final status of
\* processed sets the entry to processed and calls onUploadComplete; any
\* other final status throws, and a rejection is thrown, into the catch.
PollSettled(f) ==
    /\ jobs[f].pc \in {"resolved", "rejected"}
    /\ IF jobs[f].pc = "resolved" /\ jobs[f].outcome = "processed"
       THEN /\ uploads' = setStatus(uploads, f, "processed")
            /\ calls' = [calls EXCEPT ![f].complete = @ + 1]
            /\ jobs' = [jobs EXCEPT ![f].pc = "done"]
       ELSE catch(f, IF jobs[f].pc = "resolved" THEN "Processing failed"
                     ELSE jobs[f].outcome)
    /\ ev' = Ev("pollSettled", 0, jobs[f].pc, <<f>>)
    /\ UNCHANGED multiple
    /\ UNCHANGED transportVars
    /\ UNCHANGED pollerVars
    /\ UNCHANGED appVars

\* The user clicks the remove button of the entry with id f.
RemoveUpload(f) ==
    /\ f \in UploadIds
    /\ uploads' = removeUpload(uploads, f)
    /\ ev' = Ev("removeUpload", 0, "", <<f>>)
    /\ UNCHANGED << multiple, jobs, calls >>
    /\ UNCHANGED transportVars
    /\ UNCHANGED pollerVars
    /\ UNCHANGED appVars

\* The FileUpload component: batches of files, their uploads and pollers,
\* and the removal of entries.
NextUpload ==
    \/ \E m \in BOOLEAN : Render(m)
    \/ \E batch \in SUBSET FileIds : HandleFiles(batch)
    \/ \E f \in FileIds : \E progress \in Progresses : UploadProgress(f, progress)
    \/ \E f \in FileIds : UploadReturns(f)
    \/ \E f \in FileIds : \E message \in UploadErrors : UploadFails(f, message)
    \/ \E f \in FileIds : \E status \in FileAnswers(f) : FileStatusReturns(f, status)
    \/ \E f \in FileIds : \E message \in FetchErrors : FileStatusFails(f, message)
    \/ \E f \in FileIds : FilePollTimerFire(f)
    \/ \E f \in FileIds : PollSettled(f)
    \/ \E f \in FileIds : RemoveUpload(f)

\* The component is rendered for a user who is logged in.
InitUpload == Init /\ token # NULL

SpecUpload == InitUpload /\ [][NextUpload]_vars

\* The reconnection policy: the transport's connection lifecycle, its timers
\* and the stored token.
Next ==
    \/ Login
    \/ Logout
    \/ Connect
    \/ \E s \in Sockets : SocketOpen(s)
    \/ \E s \in Sockets : SocketClosing(s)
    \/ \E s \in Sockets : \E code \in CloseCodeSet : SocketClose(s, code)
    \/ \E d \in BagToSet(timers) : TimerFire(d)
    \/ Disconnect

Spec == Init /\ [][Next]_vars

\* The transport with its connectivity listener: the connection lifecycle
\* with onConnectionChange registered at any time.  One timer fewer is kept
\* pending than under Spec.
NextSession ==
    \/ Connect
    \/ \E s \in Sockets : SocketOpen(s)
    \/ \E s \in Sockets : SocketClosing(s)
    \/ \E s \in Sockets : \E code \in CloseCodeSet :
          SocketClose(s, code) /\ BagCardinality(timers') < MaxTimers
    \/ \E d \in BagToSet(timers) : TimerFire(d)
    \/ Disconnect
    \/ \E h \in Handlers : OnConnectionChange(h)

SpecSession == Init /\ [][NextSession]_vars

\* The transport with its sender: the connection lifecycle with sendMessage
\* called at any time.  One timer fewer is kept pending than under Spec.
NextSend ==
    \/ Connect
    \/ \E s \in Sockets : SocketOpen(s)
    \/ \E s \in Sockets : SocketClosing(s)
    \/ \E s \in Sockets : \E code \in CloseCodeSet :
          SocketClose(s, code) /\ BagCardinality(timers') < MaxTimers
    \/ \E d \in BagToSet(timers) : TimerFire(d)
    \/ Disconnect
    \/ \E t \in Texts : SendMessage(t)

SpecSend == Init /\ [][NextSend]_vars

\* The transport with both listeners: connections that open and are closed
\* with a code that is not retried, each listener registered and replaced at
\* any time, and frames arriving on any open socket.
NextListeners ==
    \/ Connect
    \/ \E s \in Sockets : SocketOpen(s)
    \/ \E s \in Sockets : \E code \in {NormalClosure, PolicyViolation} :
          SocketClose(s, code)
    \/ \E h \in Handlers : OnConnectionChange(h)
    \/ \E h \in Handlers : OnMessage(h)
    \/ \E s \in Sockets : \E payload \in Payloads : SocketMessage(s, payload)

SpecListeners == Init /\ [][NextListeners]_vars

\* The transport with its message listener: connections that open, drop, are
\* retried and are replaced by a later connect(), with onMessage registered
\* at any time and frames arriving on any open socket.  One timer fewer is
\* kept pending than under Spec.
NextReceive ==
    \/ Connect
    \/ \E s \in Sockets : SocketOpen(s)
    \/ \E s \in Sockets : \E code \in CloseCodeSet :
          SocketClose(s, code) /\ BagCardinality(timers') < MaxTimers
    \/ \E d \in BagToSet(timers) : TimerFire(d)
    \/ OnMessage("h1")
    \/ \E s \in Sockets : \E payload \in Payloads : SocketMessage(s, payload)

SpecReceive == Init /\ [][NextReceive]_vars

\* ------------------------------------------------------------------ claims
LiveStates == {"CONNECTING", "OPEN", "CLOSING"}

\* Socket s delivers its close event in this step.
Closes(s) ==
    /\ sock[s].readyState \in LiveStates
    /\ sock'[s].readyState \notin LiveStates

\* The close code of this step's close event is neither 1000 nor 1008.
UnexpectedClose ==
    /\ ev'.op = "close"
    /\ ev'.code \notin {NormalClosure, PolicyViolation}

\* The delays of the claim, by the number of retries fired before.
BackoffDelays == <<1000, 2000, 4000, 8000, 16000>>

C2_PolicyViolationNeverRetries ==
    [][ (ev'.op = "close" /\ ev'.code = PolicyViolation) => timers' = timers ]_vars

\* A 1008 close arrived while retries were still allowed and none was pending.
C2_Witness ==
    /\ ev.op = "close"
    /\ ev.code = PolicyViolation
    /\ reconnectAttempts = 4
    /\ timers = EmptyBag

\* C3: the close event of a socket that disconnect() closed schedules no
\* reconnect, whatever state the socket was in when disconnect() was called.
C3_NoRetryAfterDisconnect ==
    [][ \A s \in Sockets :
          (Closes(s) /\ sock[s].closeCalled) => timers' = timers ]_vars

\* C4: a reconnect timer that is pending when disconnect() is called does not
\* fire a connect(): the step after disconnect() is not a timer that creates a
\* socket.
C4_DisconnectCancelsTimer ==
    [][ (ev.op = "disconnect" /\ ev'.op = "timer") =>
          (ws' = NoWs /\ sock' = sock) ]_vars

\* C5 as stated: when a connect() fails its handshake (its socket closes
\* without having opened, and not because disconnect() closed it) the promise
\* is rejected and no reconnect is scheduled.
C5_HandshakeFailureNotRetried ==
    [][ \A s \in Sockets :
          (Closes(s) /\ sock[s].promise = "pending" /\ ~sock[s].closeCalled) =>
              (ev'.res = "rejected" /\ timers' = timers) ]_vars

\* C5 as amended: when a connect() fails its handshake the promise is
\* rejected, the close event carries code 1006, and that close schedules a
\* reconnect exactly when reconnectAttempts < 5, as for any other unexpected
\* close.
C5_HandshakeFailureRejectsAndRetries ==
    [][ \A s \in Sockets :
          (Closes(s) /\ sock[s].promise = "pending") =>
              /\ ev'.res = "rejected"
              /\ ev'.code = AbnormalClosure
              /\ timers' = IF reconnectAttempts < maxReconnectAttempts
                           THEN timers (+) SetToBag({BackoffDelays[reconnectAttempts + 1]})
                           ELSE timers ]_vars

\* The first connect() has failed its handshake: rejected, and a retry pending.
C5_Witness ==
    /\ ev.op = "close"
    /\ ev.res = "rejected"
    /\ retriesFired = 0
    /\ reconnectAttempts = 0
    /\ timers = SetToBag({reconnectDelay})

\* C6: reconnectAttempts stays within 0..maxReconnectAttempts.
C6_AttemptsWithinBudget == reconnectAttempts \in 0..maxReconnectAttempts

Existing(f) == {s \in Sockets : f[s].readyState \in LiveStates \cup {"CLOSED"}}

\* C8: a close with a code other than 1000 and 1008 while reconnectAttempts < 5
\* schedules exactly one timer; a timer that fires increments
\* reconnectAttempts by one, leaves the pending timers one fewer, and calls
\* connect() once: with a token one socket is created, connecting and held by
\* this.ws; without one connect() rejects and no socket changes.
C8_OneRetryPerUnexpectedClose ==
    [][ /\ (UnexpectedClose /\ reconnectAttempts < maxReconnectAttempts) =>
             /\ timers \sqsubseteq timers'
             /\ BagCardinality(timers') = BagCardinality(timers) + 1
        /\ ev'.op = "timer" =>
             /\ reconnectAttempts' = reconnectAttempts + 1
             /\ timers' \sqsubseteq timers
             /\ BagCardinality(timers') = BagCardinality(timers) - 1
             /\ IF token = NULL
                THEN ev'.res = "NoToken" /\ sock' = sock /\ ws' = ws
                ELSE /\ ev'.res = "pending"
                     /\ ws' \in Sockets
                     /\ sock'[ws'].readyState = "CONNECTING"
                     /\ \A s \in Sockets \ {ws'} :
                          sock'[s] = sock[s] \/ sock'[s] = NoSocket
                     /\ Cardinality({s \in Sockets : sock'[s].readyState = "CONNECTING"})
                          = Cardinality({s \in Sockets : sock[s].readyState = "CONNECTING"}) + 1 ]_vars

\* The third retry has fired and created a socket.
C8_Witness ==
    /\ ev.op = "timer"
    /\ ev.res = "pending"
    /\ reconnectAttempts = 3
    /\ ws # NoWs
    /\ sock[ws].readyState = "CONNECTING"

\* What the receiver of a frame reads: the frame is the JSON text of an object
\* whose only member is "message", and the member's string is unescaped.
FrameBody(frame) ==
    SubSeq(frame, Len(FramePrefix) + 1, Len(frame) - Len(FrameSuffix))

IsMessageFrame(frame, message) ==
    /\ Len(frame) >= Len(FramePrefix) + Len(FrameSuffix)
    /\ SubSeq(frame, 1, Len(FramePrefix)) = FramePrefix
    /\ SubSeq(frame, Len(frame) - Len(FrameSuffix) + 1, Len(frame)) = FrameSuffix
    /\ JSONstringBody(FrameBody(frame))
    /\ JSONunescape(FrameBody(frame)) = message

Hello == <<"h", "e", "l", "l", "o">>
HelloFrame ==
    <<"{", "\"", "m", "e", "s", "s", "a", "g", "e", "\"", ":", "\"",
      "h", "e", "l", "l", "o", "\"", "}">>

\* The transport holds a socket and the socket is OPEN.
HoldsOpenSocket == ws # NoWs /\ sock[ws].readyState = "OPEN"

\* C9: sendMessage(text) fails with the not-connected error and writes no
\* frame when the transport holds no socket or its socket is not OPEN
\* (connecting, closing or closed); otherwise it writes exactly one frame, the
\* JSON text of {message: text}; for "hello" the frame is {"message":"hello"}.
C9_SendOnlyWhenConnected ==
    [][ ev'.op = "send" =>
          IF HoldsOpenSocket
          THEN /\ ev'.res = "sent"
               /\ Len(frames') = Len(frames) + 1
               /\ SubSeq(frames', 1, Len(frames)) = frames
               /\ IsMessageFrame(frames'[Len(frames')], ev'.arg)
               /\ ev'.arg = Hello => frames'[Len(frames')] = HelloFrame
          ELSE /\ ev'.res = "NotConnected"
               /\ frames' = frames ]_vars

\* A send before connect() has resolved was rejected and wrote nothing.
C9_Witness ==
    /\ ev.op = "send"
    /\ ev.res = "NotConnected"
    /\ ws # NoWs
    /\ sock[ws].readyState = "CONNECTING"
    /\ frames = <<>>

\* C10: when the connectivity listener was last told connected, the transport
\* holds an OPEN socket (a send succeeds); when it was last told disconnected,
\* a send fails.
C10_ReportedStateMatchesSocket ==
    /\ reported = "connected" => (HoldsOpenSocket /\ ~sendMessageRejects)
    /\ reported = "disconnected" => sendMessageRejects

\* C11: at any time at most one socket created by the transport is connecting
\* or open.
C11_SingleLiveSocket ==
    Cardinality({s \in Sockets : sock[s].readyState \in {"CONNECTING", "OPEN"}}) <= 1

\* C12: disconnect() calls close(1000, ...) on the socket the transport holds,
\* which leaves that socket neither connecting nor open, and drops the handle;
\* with no socket it changes nothing.  While the handle is dropped
\* isConnected() is false and sendMessage fails without writing a frame, and
\* the handle is set again only by a connect() (a caller's or a timer's), to
\* a new connecting socket.
C12_DisconnectLeavesDisconnected ==
    [][ /\ ev'.op = "disconnect" =>
             /\ ws' = NoWs
             /\ ~isConnected'
             /\ UNCHANGED << token, reconnectAttempts, timers, reported, frames >>
             /\ IF ws = NoWs
                THEN sock' = sock
                ELSE /\ sock'[ws].readyState \notin {"CONNECTING", "OPEN"}
                     /\ sock[ws].readyState \in {"CONNECTING", "OPEN"} =>
                          (sock'[ws].readyState = "CLOSING" /\ sock'[ws].closeCalled)
                     /\ \A s \in Sockets \ {ws} : sock'[s] = sock[s]
        /\ ws = NoWs => ~isConnected
        /\ (ws = NoWs /\ ev'.op = "send") =>
             (ev'.res = "NotConnected" /\ frames' = frames)
        /\ (ws = NoWs /\ ws' # NoWs) =>
             /\ ev'.op \in {"connect", "timer"}
             /\ sock[ws'].readyState \notin LiveStates
             /\ sock'[ws'].readyState = "CONNECTING" ]_vars

\* After disconnect() of an open socket, whose closing handshake is still
\* running, a send was rejected.
C12_Witness ==
    /\ ev.op = "send"
    /\ ev.res = "NotConnected"
    /\ ws = NoWs
    /\ \E s \in Sockets : sock[s].closeCalled /\ sock[s].promise = "resolved"

\* C13 as stated: a call of connect() creates a connecting socket whether or
\* not a token is stored.
C13_ConnectsWithoutToken ==
    [][ ev'.op = "connect" =>
          /\ ws' \in Sockets
          /\ sock[ws'].readyState \notin LiveStates
          /\ sock'[ws'].readyState = "CONNECTING" ]_vars

\* C13 as amended: connect() creates a connecting socket, held by this.ws and
\* with its promise pending, exactly when a token is stored; without a token
\* it rejects with the no-token error and neither this.ws nor any socket
\* changes.
C13_ConnectRequiresToken ==
    [][ ev'.op = "connect" =>
          IF token = NULL
          THEN /\ ev'.res = "NoToken"
               /\ ws' = ws
               /\ sock' = sock
          ELSE /\ ev'.res = "pending"
               /\ ws' \in Sockets
               /\ sock[ws'].readyState \notin LiveStates
               /\ sock'[ws'].readyState = "CONNECTING"
               /\ sock'[ws'].promise = "pending" ]_vars

\* connect() was called after logout, while a socket is still open.
C13_Witness ==
    /\ ev.op = "connect"
    /\ ev.res = "NoToken"
    /\ token = NULL
    /\ ws # NoWs
    /\ sock[ws].readyState = "OPEN"

\* The frames of the claims and what the listener is handed for them.
StringFrame == <<"\"", "h", "\\", "\"", "i", "\"">>
ObjectFrame ==
    <<"{", "\"", "m", "e", "s", "s", "a", "g", "e", "\"", ":", "\"", "o", "k", "\"", "}">>
CutFrame ==
    <<"{", "\"", "m", "e", "s", "s", "a", "g", "e", "\"", ":", "\"", "o", "k">>
WordFrame == <<"o", "o", "p", "s">>
WellFormedFrames == {StringFrame, ObjectFrame}
MalformedFrames == {CutFrame, WordFrame}

Parsed(frame) ==
    IF frame = StringFrame
    THEN [type |-> "string", text |-> <<"h", "\"", "i">>]
    ELSE [type |-> "object", text |-> <<"o", "k">>]

\* C14: every frame with a well-formed text that arrives while a listener is
\* registered adds exactly one call of that listener, with the parsed data, at
\* the end of the calls made so far, whichever socket it arrived on; no other
\* step adds, removes or reorders a call.
C14_DeliveredOnceInOrder ==
    [][ /\ (ev'.op = "message" /\ ev'.arg \in WellFormedFrames
                /\ messageHandler # NULL) =>
             /\ ev'.res = "delivered"
             /\ delivered' = Append(delivered,
                                    [to |-> messageHandler,
                                     type |-> Parsed(ev'.arg).type,
                                     text |-> Parsed(ev'.arg).text])
        /\ ev'.op # "message" => delivered' = delivered
        /\ Len(delivered') >= Len(delivered)
        /\ SubSeq(delivered', 1, Len(delivered)) = delivered ]_vars

\* Two different frames were delivered in order, the second on a socket that
\* a reconnect has replaced: the socket the transport holds is still
\* connecting.
C14_Witness ==
    /\ ev.op = "message"
    /\ ev.arg = StringFrame
    /\ Len(delivered) = 2
    /\ delivered[1].type = "object"
    /\ delivered[2].type = "string"
    /\ retriesFired >= 1
    /\ ws # NoWs
    /\ sock[ws].readyState = "CONNECTING"

\* C15: a frame whose text is not valid JSON calls no listener and changes
\* neither the socket, the handle, reconnectAttempts, the timers, what was
\* reported nor the listener; the frame after it, when well formed, is
\* delivered.
C15_MalformedFrameDropped ==
    [][ /\ (ev'.op = "message" /\ ev'.arg \in MalformedFrames) =>
             /\ ev'.res \in {"SyntaxError", "nolistener"}
             /\ delivered' = delivered
             /\ UNCHANGED << ws, sock, reconnectAttempts, timers, reported,
                             reportedTo, messageHandler, connectionHandler >>
        /\ (ev.op = "message" /\ ev.arg \in MalformedFrames
                /\ ev'.op = "message" /\ ev'.arg \in WellFormedFrames
                /\ messageHandler # NULL) =>
             /\ Len(delivered') = Len(delivered) + 1
             /\ delivered'[Len(delivered')].text = Parsed(ev'.arg).text ]_vars

\* A cut-off frame arrived after one delivery, with a listener registered and
\* a retry pending; it was dropped.
C15_Witness ==
    /\ ev.op = "message"
    /\ ev.arg = CutFrame
    /\ ev.res = "SyntaxError"
    /\ messageHandler # NULL
    /\ Len(delivered) = 1
    /\ timers # EmptyBag

\* C16: a registration makes the listener passed the only listener of its
\* kind, whatever was registered before; no other step changes a listener;
\* every frame delivered and every connectivity change reported goes to the
\* listener registered last, once.
C16_LastRegistrationWins ==
    [][ /\ ev'.op = "onMessage" =>
             (messageHandler' = ev'.res /\ connectionHandler' = connectionHandler)
        /\ ev'.op = "onConnectionChange" =>
             (connectionHandler' = ev'.res /\ messageHandler' = messageHandler)
        /\ ev'.op \notin {"onMessage", "onConnectionChange"} =>
             UNCHANGED << messageHandler, connectionHandler >>
        /\ (ev'.op = "message" /\ ev'.res = "delivered") =>
             /\ Len(delivered') = Len(delivered) + 1
             /\ SubSeq(delivered', 1, Len(delivered)) = delivered
             /\ delivered'[Len(delivered')].to = messageHandler
        /\ (ev'.op \in {"open", "close"} /\ connectionHandler # NULL) =>
             /\ reportedTo' = connectionHandler
             /\ reported' = IF ev'.op = "open" THEN "connected" ELSE "disconnected"
        /\ (ev'.op \notin {"open", "close"} \/ connectionHandler = NULL) =>
             UNCHANGED << reported, reportedTo >> ]_vars

\* h1 and then h2 were registered for both kinds; a frame went to h1 before
\* and one to h2 after, and the close just reported went to h2.
C16_Witness ==
    /\ ev.op = "close"
    /\ messageHandler = "h2"
    /\ connectionHandler = "h2"
    /\ reportedTo = "h2"
    /\ reported = "disconnected"
    /\ Len(delivered) = 2
    /\ delivered[1].to = "h1"
    /\ delivered[2].to = "h2"

\* The errors of the claims about the poller.
TimeoutRejection ==
    [how |-> "reject", error |-> "Timeout",
     message |-> "File processing timeout - file is still processing",
     status |-> "processing"]

\* The status just fetched was 'processing'; every earlier one was too, or
\* the poller would have stopped.
JustProcessing == ev.op = "status" /\ ev.res = "processing"

Min(a, b) == IF a <= b THEN a ELSE b

\* C18: when a status fetch returns 'processed', on poll k, the poller
\* resolves on that poll with that status and its detail; it has made k status
\* fetches, k is at most min(k, maxAttempts), and no fetch or timer is pending.
C18_ResolvesOnProcessed ==
    (ev.op = "status" /\ ev.res = "processed") =>
        /\ pollPromise = "resolved"
        /\ settled = << [how |-> "resolve", error |-> "",
                         message |-> ev.arg[1], status |-> "processed"] >>
        /\ pollAttempts <= Min(pollAttempts, maxAttempts)
        /\ fetches <= Min(pollAttempts, maxAttempts)
        /\ fetches = pollAttempts
        /\ maxAttempts = 30 => pollAttempts <= 30
        /\ ~inflight
        /\ pollTimers = EmptyBag

\* The job was reported processed on the last poll the default allows.
C18_Witness ==
    /\ ev.op = "status"
    /\ ev.res = "processed"
    /\ maxAttempts = 30
    /\ pollAttempts = 30
    /\ pollPromise = "resolved"

\* C19: when a status fetch returns 'unknown' the poller rejects on that poll
\* with the processing-failed error, whose message is the server's detail (or
\* the default text when the detail is empty), and nothing is pending; once
\* the promise is settled no status fetch is issued and no timer is set.
C19_UnknownRejectsAtOnce ==
    [][ /\ (ev'.op = "status" /\ ev'.res = "unknown") =>
             /\ pollPromise' = "rejected"
             /\ settled' =
                  << [how |-> "reject", error |-> "ProcessingFailed",
                      message |-> IF ev'.arg[1] = ""
                                  THEN "File processing failed with unknown status"
                                  ELSE ev'.arg[1],
                      status |-> "unknown"] >>
             /\ fetches' = fetches
             /\ ~inflight'
             /\ pollTimers' = EmptyBag
        /\ pollPromise \in {"resolved", "rejected"} =>
             UNCHANGED << fetches, pollAttempts, inflight, pollTimers, settled,
                          pollPromise >> ]_vars

\* The third poll returned 'unknown' with a detail and the poller rejected
\* with it.
C19_Witness ==
    /\ ev.op = "status"
    /\ ev.res = "unknown"
    /\ ev.arg = <<"corrupt">>
    /\ pollAttempts = 3
    /\ pollPromise = "rejected"
    /\ settled[1].message = "corrupt"

\* C20: whenever a status fetch returns a status other than 'processed',
\* 'unknown' and 'processing', the poller rejects with the unexpected-status
\* error, on every poll including the last one allowed.
C20_UnexpectedStatusRejects ==
    (ev.op = "status" /\ ev.res \notin {"processed", "unknown", "processing"}) =>
        /\ pollPromise = "rejected"
        /\ Len(settled) = 1
        /\ settled[1].error = "UnexpectedStatus"
        /\ settled[1].status = ev.res

\* C21 as stated: every status fetch that ends, with a status or with an
\* error, adds one call of the progress callback when one is given.
C21_EveryPollResultReported ==
    [][ (ev'.op \in {"status", "fetchFailed"} /\ onStatusUpdate # NULL) =>
          updates' = updates + 1 ]_vars

\* C21 as amended: every status a fetch returns is passed to the progress
\* callback, when one is given, on that poll, whether the poller then
\* resolves, rejects or continues; a fetch that fails is not reported to the
\* callback, and no other step calls it.
C21_EveryStatusReported ==
    [][ /\ (ev'.op = "status" /\ onStatusUpdate # NULL) =>
             /\ updates' = updates + 1
             /\ lastUpdate' = [status |-> ev'.res, detail |-> ev'.arg[1]]
             /\ updates' = pollAttempts
        /\ (ev'.op # "status" \/ onStatusUpdate = NULL) =>
             UNCHANGED << updates, lastUpdate >>
        /\ ev'.op = "fetchFailed" => pollPromise' = "rejected" ]_vars

\* The second status, 'unknown', was reported to the callback on the poll
\* that rejected.
C21_Witness ==
    /\ ev.op = "status"
    /\ onStatusUpdate # NULL
    /\ updates = 2
    /\ lastUpdate.status = "unknown"
    /\ pollPromise = "rejected"

\* C22: once pollFileStatus has been called, and every status fetch ends and
\* every timer fires, the promise settles; resolve and reject are called at
\* most once between them, whatever statuses are returned; and no more than
\* maxAttempts status fetches are made (30 with the default).
C22_PollerTerminates ==
    /\ (pollPromise = "pending") ~> (pollPromise \in {"resolved", "rejected"})
    /\ [](Len(settled) <= 1)
    /\ [](pollPromise \in {"resolved", "rejected"} <=> Len(settled) = 1)
    /\ [](pollPromise # "none" => fetches <= maxAttempts)
    /\ [](fetches <= 30)
    /\ [][ (pollPromise # "pending" /\ pollPromise # "none") =>
              (pollPromise' = pollPromise /\ settled' = settled) ]_vars

\* The poller ran to the last poll the default allows and settled there on an
\* unexpected status.
C22_Witness ==
    /\ pollPromise = "rejected"
    /\ Len(settled) = 1
    /\ settled[1].status = "error"
    /\ fetches = 30
    /\ maxAttempts = 30

\* C28: when a status fetch fails the poller rejects with that error on that
\* poll, whatever the number of the poll: no timer is set, no fetch is
\* pending, the number of fetches made stays what it was, and the step after
\* it is not another poll.
C28_FetchFailureRejects ==
    [][ /\ ev'.op = "fetchFailed" =>
             /\ pollPromise' = "rejected"
             /\ settled' = << [how |-> "reject", error |-> "FetchFailed",
                               message |-> ev'.res, status |-> ""] >>
             /\ fetches' = fetches
             /\ pollAttempts' = pollAttempts
             /\ pollTimers' = EmptyBag
             /\ ~inflight'
        /\ ev.op = "fetchFailed" =>
             (UNCHANGED << fetches, pollAttempts, pollTimers, inflight >>) ]_vars

\* The fetch of the 30th poll failed with the server's detail.
C28_Witness ==
    /\ ev.op = "fetchFailed"
    /\ ev.res = "not found"
    /\ pollAttempts = 30
    /\ pollPromise = "rejected"

\* The guard of the chat form, as the claim words it.
MaySubmit == appIsConnected /\ ~isLoading /\ trim(input) # <<>>

\* C24: handleSubmit calls sendMessage and appends a user message only when
\* the connectivity flag is true, isLoading is false and the input is not
\* blank; otherwise it changes nothing.  When it goes ahead it appends the
\* user message with the input, clears the input, and either writes the frame
\* of the input and sets isLoading or, the transport not being connected,
\* appends the apology and leaves isLoading false.
C24_SubmitOnlyWhenConnected ==
    [][ /\ ev'.op = "submit" =>
             IF MaySubmit
             THEN /\ Len(messages') > Len(messages)
                  /\ messages'[Len(messages) + 1] = Message("user", input)
                  /\ input' = <<>>
                  /\ \/ /\ HoldsOpenSocket
                        /\ frames' = Append(frames, JSONstringify(input))
                        /\ messages' = Append(messages, Message("user", input))
                        /\ isLoading'
                     \/ /\ ~HoldsOpenSocket
                        /\ frames' = frames
                        /\ Len(messages') = Len(messages) + 2
                        /\ ~isLoading'
             ELSE /\ frames' = frames
                  /\ messages' = messages
                  /\ input' = input
                  /\ isLoading' = isLoading
                  /\ appIsConnected' = appIsConnected
                  /\ ws' = ws
                  /\ sock' = sock
        /\ (frames' # frames) => (ev'.op = "submit" /\ MaySubmit)
        /\ (\E i \in 1..Len(messages') :
               i > Len(messages) /\ messages'[i].role = "user")
               => (ev'.op = "submit" /\ MaySubmit)
      ]_vars

\* C24 witness: after a submit that went through, a submit with a text in the
\* input was refused because the flag was false.
C24_Witness ==
    /\ ev.op = "submit"
    /\ ev.res = "returned"
    /\ trim(ev.arg) # <<>>
    /\ ~isLoading
    /\ ~appIsConnected
    /\ UserMessages = 1
    /\ Len(frames) = 1

\* C25: a close event of a socket the transport does not hold never sets the
\* connectivity flag of App to false while the socket the transport holds is
\* open.
C25_StaleCloseKeepsFlag ==
    [][ (\E s \in Sockets : Closes(s) /\ s # ws) /\ HoldsOpenSocket
            => (appIsConnected => appIsConnected') ]_vars

\* C26: when isLoading is still true at the time a socket opens again after
\* the submit (the connection closed before a frame arrived), isLoading
\* becomes false later.  Only the states in which the listener can still be
\* handed a frame are looked at.
C26_LoadingEndsAfterReconnect ==
    (isLoading /\ ev.op = "open" /\ Len(delivered) < MaxInbound) ~> ~isLoading

\* C27: handleLogout leaves the transport without a socket and removes the
\* token; while no token is stored no step creates a socket, and a reconnect
\* timer that fires calls connect(), which rejects with the no-token error,
\* creates no socket and leaves the socket handle as it was; the timer is
\* used up.
C27_NoSocketWithoutToken ==
    [][ /\ ev'.op = "handleLogout" => (token' = NULL /\ ws' = NoWs)
        /\ token = NULL =>
              /\ \A s \in Sockets :
                    sock'[s].readyState = "CONNECTING"
                        => sock[s].readyState = "CONNECTING"
              /\ ws' \in {ws, NoWs}
              /\ ev'.op = "timer" =>
                    /\ ev'.res = "NoToken"
                    /\ ws' = ws
                    /\ sock' = sock
                    /\ BagCardinality(timers') = BagCardinality(timers) - 1
      ]_vars

\* C27 witness: a reconnect timer fired after the logout and connect()
\* rejected for lack of a token.
C27_Witness ==
    /\ ev.op = "timer"
    /\ ev.res = "NoToken"
    /\ token = NULL
    /\ ws = NoWs
    /\ \A s \in Sockets : sock[s].readyState \notin {"CONNECTING", "OPEN"}

\* The status of the entry with id f.
StatusOf(ups, f) == (CHOOSE i \in 1..Len(ups) : ups[i].id = f)

\* In every step, an entry whose status is in terminal keeps its status as
\* long as it is in the list.
KeepsStatus(terminal) ==
    \A i \in 1..Len(uploads) :
        uploads[i].status \in terminal =>
            \A j \in 1..Len(uploads') :
                uploads'[j].id = uploads[i].id
                    => uploads'[j].status = uploads[i].status

\* C23 as stated: once an entry of the uploads list has the status processed,
\* error or unknown, no later update changes its status.
C23_TerminalStatusKept ==
    [][ KeepsStatus({"processed", "error", "unknown"}) ]_vars

\* C23, amended: once an entry has the status processed or error, no later
\* update changes its status; an entry has the status unknown only between
\* the poller's rejection and the catch of handleFiles, which sets it to
\* error.
C23_ProcessedAndErrorAreTerminal ==
    /\ [][ KeepsStatus({"processed", "error"}) ]_vars
    /\ [](\A i \in 1..Len(uploads) :
            uploads[i].status = "unknown" => jobs[uploads[i].id].pc = "rejected")
    /\ [][ \A i \in 1..Len(uploads) :
             uploads[i].status = "unknown" =>
                 \A j \in 1..Len(uploads') :
                     uploads'[j].id = uploads[i].id
                         => uploads'[j].status \in {"unknown", "error"} ]_vars

\* C23 witness: the poller of an entry was answered unknown, and the entry
\* ended with the status error.
C23_Witness ==
    /\ ev.op = "pollSettled"
    /\ \E i \in 1..Len(uploads) :
          /\ uploads[i].status = "error"
          /\ ev.arg = << uploads[i].id >>
          /\ jobs[uploads[i].id].pc = "failed"
          /\ jobs[uploads[i].id].outcome = "File processing failed with unknown status"
    /\ \E i \in 1..Len(uploads) : uploads[i].status = "processed"

\* The calls of the two callbacks made for c, and the files whose handling
\* ended.
CallsOf(c) == calls[c].complete + calls[c].error
TotalCalls ==
    CallsOf("a") + CallsOf("b") + CallsOf("c") + CallsOf("big") + CallsOf(Batch)
Finished == {f \in FileIds : jobs[f].pc \in {"refused", "invalid", "done", "failed"}}
InProgress == {"uploading", "polling", "waiting", "resolved", "rejected"}

\* The files of FileIds that fail validation: c.exe by its extension,
\* big.pdf by its size.
InvalidFiles == {"c", "big"}

\* What holds of every file whatever the batch it came in.
PerFileCallbacks(f) ==
    /\ jobs[f].pc \in {"none"} \cup InProgress => calls[f] = NoCalls
    /\ f \in InvalidFiles => jobs[f].pc \in {"none", "refused", "invalid"}
    /\ jobs[f].pc = "invalid" =>
          /\ f \in InvalidFiles
          /\ calls[f] = [complete |-> 0, error |-> 1]
          /\ f \notin UploadIds
    /\ jobs[f].pc = "done" =>
          /\ calls[f] = [complete |-> 1, error |-> 0]
          /\ jobs[f].outcome = "processed"
          /\ f \in UploadIds => uploads[StatusOf(uploads, f)].status = "processed"
    /\ jobs[f].pc = "failed" =>
          /\ calls[f] = [complete |-> 0, error |-> 1]
          /\ f \in UploadIds => uploads[StatusOf(uploads, f)].status = "error"

\* C29 as stated: for every file passed to handleFiles exactly one of the
\* two callbacks is invoked, once: there are as many calls as files whose
\* handling ended, one per file.
C29_OneCallbackPerFile ==
    /\ TotalCalls = Cardinality(Finished)
    /\ \A f \in Finished : CallsOf(f) = 1

\* C29, amended: unless the batch is turned away as a whole, exactly one of
\* the callbacks is invoked for each file, once: onUploadError and no entry
\* and no upload for a file that fails validation; for an accepted file
\* onUploadComplete when polling resolved with processed, else onUploadError
\* with the status error.  A batch of several files handed over while
\* multiple is false gets one call of onUploadError for the whole batch, and
\* none of its files is validated, listed or uploaded.
C29_OneCallbackPerHandledFile ==
    /\ [](\A f \in FileIds : PerFileCallbacks(f))
    /\ [](\A f \in FileIds :
            jobs[f].pc = "refused" =>
                (~multiple /\ calls[f] = NoCalls /\ f \notin UploadIds))
    /\ [](calls[Batch].complete = 0)
    /\ [][ ev'.op = "handleFiles" =>
             IF ~multiple /\ Len(ev'.arg) > 1
             THEN /\ ev'.res = "refused"
                  /\ calls' = [calls EXCEPT ![Batch].error = @ + 1]
                  /\ uploads' = uploads
                  /\ \A f \in FileIds : jobs'[f].pc \notin InProgress \cup {"invalid"}
                                          \/ jobs'[f] = jobs[f]
             ELSE /\ ev'.res = "started"
                  /\ calls'[Batch] = calls[Batch]
                  /\ \A f \in FileIds :
                        jobs'[f].pc = "refused" => jobs[f].pc = "refused" ]_vars

\* C29 witness: of the files handed over, one ended with onUploadComplete,
\* one with onUploadError after its upload, and two failed validation.
C29_Witness ==
    /\ jobs["a"].pc = "done"
    /\ jobs["b"].pc = "failed"
    /\ jobs["c"].pc = "invalid"
    /\ jobs["big"].pc = "invalid"
    /\ TotalCalls = 4

\* The steps that update the entry of a file.
UpdateOps == {"progress", "uploaded", "uploadFailed", "fileStatus", "pollSettled"}

\* C30: removeUpload(id) takes the entry out of the list and leaves the other
\* entries, the upload and the poller as they are; an entry comes into the
\* list only when its file is handed to handleFiles; every later update for
\* an id that is not in the list leaves the list unchanged; the body of a
\* file whose entry is gone can still take its next step, and the step that
\* ends it calls onUploadComplete or onUploadError.
C30_RemovedEntryStaysOut ==
    /\ [][ ev'.op = "removeUpload" =>
             LET Keep(upload) == << upload.id >> # ev'.arg
             IN /\ \E i \in 1..Len(uploads) : << uploads[i].id >> = ev'.arg
                /\ uploads' = SelectSeq(uploads, Keep)
                /\ jobs' = jobs
                /\ calls' = calls ]_vars
    /\ [][ \A f \in FileIds :
             (f \in UploadIds' /\ f \notin UploadIds)
                 => (ev'.op = "handleFiles" /\ jobs[f].pc = "none") ]_vars
    /\ [][ \A f \in FileIds \ UploadIds :
             (ev'.op \in UpdateOps /\ ev'.arg = << f >>) => uploads' = uploads ]_vars
    /\ [][ \A f \in FileIds :
             (ev'.op \in {"uploadFailed", "pollSettled"} /\ ev'.arg = << f >>)
                 => /\ CallsOf(f)' = CallsOf(f) + 1
                    /\ jobs'[f].pc \in {"done", "failed"} ]_vars
    /\ [](\A f \in FileIds \ UploadIds :
            /\ jobs[f].pc = "uploading" => ENABLED UploadReturns(f)
            /\ jobs[f].pc = "polling" =>
                  ENABLED (\E status \in FileAnswers(f) : FileStatusReturns(f, status))
            /\ jobs[f].pc = "waiting" => ENABLED FilePollTimerFire(f)
            /\ jobs[f].pc \in {"resolved", "rejected"} => ENABLED PollSettled(f))

\* C30 witness: the entry of a.pdf was removed while its body was running,
\* its poller resolved and onUploadComplete was called; the entry is not in
\* the list.
C30_Witness ==
    /\ ev.op = "pollSettled"
    /\ ev.arg = << "a" >>
    /\ jobs["a"].pc = "done"
    /\ calls["a"].complete = 1
    /\ "a" \notin UploadIds
    /\ "b" \in UploadIds
====
